---- MODULE Spec2Model ----
(***************************************************************************)
(* Model of teqp's generalized multi-phase equilibrium assembler           *)
(* (include/teqp/algorithms/phase_equil.hpp): the specification equations, *)
(* UnpackedVariables::pack, the constructor of GeneralizedPhaseEquilibrium,*)
(* call(x) and num_Jacobian(x, dx).                                        *)
(*                                                                         *)
(* Arrays keep the 0-based indices of the source: an array of n entries is *)
(* a sequence of length n and At(v, i) is its entry i.  Floating-point     *)
(* values are symbolic                                                     *)
(* terms: a term names the expression the code evaluates (k), its sign     *)
(* (s), the phase and component indices it belongs to (ph, a, b) and the   *)
(* entries of x that the expression reads (args).  Entries of x are        *)
(* integers counted in units of 1e-6, so that the fallback step of         *)
(* num_Jacobian is one unit.                                               *)
(***************************************************************************)
EXTENDS Integers, Sequences, FiniteSets, TLC

\* ---------------------------------------------------------------- bounds
MaxComponents == 3
MaxPhases == 3
MaxSpecs == 3

\* ------------------------------------------------------------- constants
\* the fallback step 1e-6 of num_Jacobian, in units of 1e-6
DefaultStep == 1

VARIABLES
    pc,             \* "start", "ready" (assembler constructed), "noobject" (no
                    \* assembler: construction threw, or a specification object
                    \* was used on its own), "dead" (process terminated)
    ctor,           \* outcome of the constructor
    init,           \* the UnpackedVariables handed to the constructor
    specifications, \* member specifications
    Ncomponents, Nphases, Nindependent,
    res,            \* member res: CallResult [r, J]
    lastx,          \* argument of the most recent call
    outcome,        \* how the most recent call ended
    errmsg,         \* what() of the exception of the most recent call
    rowlog,         \* rows in the order the most recent call assigned them
    cursor,         \* value of irow when the most recent call returned
    unpacked,       \* T, rhovecs, betas as read from x by the most recent call
    packed,         \* result of the most recent init.pack()
    numres,         \* result of the most recent num_Jacobian
    corrupted,      \* a write landed outside the buffers
    speccalls,      \* the r_Jacobian invocations of the most recent call, in order
    modelcalls,     \* the residual-model evaluations of the most recent call, in order
    res2, lastx2, outcome2   \* a second assembler built from the same data

vars == <<pc, ctor, init, specifications, Ncomponents, Nphases, Nindependent,
          res, lastx, outcome, errmsg, rowlog, cursor, unpacked, packed,
          numres, corrupted, speccalls, modelcalls, res2, lastx2, outcome2>>

\* --------------------------------------------------------------- helpers
Size(v) == Len(v)
At(v, i) == v[i+1]
\* the array of n entries whose entry i is F(i)
Array(n, F(_)) == <<>> \o [i \in 1..n |-> F(i-1)]
SetMax(S) == CHOOSE m \in S : \A n \in S : n <= m
RECURSIVE Flatten(_)
Flatten(ss) == IF ss = <<>> THEN <<>> ELSE Head(ss) \o Flatten(Tail(ss))

Tm(k, s, ph, a, b, args) == [k |-> k, s |-> s, ph |-> ph, a |-> a, b |-> b, args |-> args]
Zero == Tm("zero", 0, 0, 0, 0, <<>>)
One == Tm("one", 1, 0, 0, 0, <<>>)
Garbage(g) == Tm("uninitialized", g, 0, 0, 0, <<>>)

\* a write of the values vals to the entries col, col+1, ... of an array
\* (a segment or block assignment; one value for a single entry); the value
\* an entry holds after a sequence of writes is the last one written to it,
\* or what was there before
B(col, vals) == [col |-> col, vals |-> vals]
W(col, val) == B(col, <<val>>)
Covers(w, col) == w.col <= col /\ col < w.col + Len(w.vals)
LastVal(events, col, before) ==
    LET hits == {n \in 1..Len(events) : Covers(events[n], col)}
    IN IF hits = {} THEN before
       ELSE LET w == events[SetMax(hits)] IN w.vals[col - w.col + 1]

DigitChars == <<"0", "1", "2", "3", "4", "5", "6", "7", "8", "9">>
RECURSIVE to_string(_)
to_string(n) == IF n < 10 THEN <<DigitChars[n+1]>>
                ELSE to_string(n \div 10) \o <<DigitChars[(n % 10) + 1]>>

\* ------------------------------------------------- specification objects
SpecKinds == {"T", "P", "Beta", "V"}
MkSpec(kind) == [kind |-> kind, iphase |-> 0]

\* ----------------------------------------------------- UnpackedVariables
MkInit(lens, nb) ==
    [T |-> 5,
     rhovecs |-> Array(Len(lens), LAMBDA k : Array(lens[k+1], LAMBDA j : 10*(k+1) + j)),
     betas |-> Array(nb, LAMBDA k : 60 + k)]

\* pack(): x(1+(Ncomponents+1)*Nphases); x[0] = T; each rhovecs[iphase_] is
\* mapped at 1 + iphase_*Ncomponents; x.tail(betas.size()) = betas.
PackBlockStart_stride(iphase_, Ncomp) == 1 + iphase_*(Ncomp + 1)
PackBlockStart(iphase_, Ncomp) == 1 + iphase_*Ncomp
pack(u) ==
    LET nph == Size(u.betas)
        ncomp == Size(At(u.rhovecs, 0))
        n == 1 + (ncomp+1)*nph
        events == <<W(0, u.T)>>
                  \o [k \in 1..nph |-> B(PackBlockStart(k-1, ncomp), At(u.rhovecs, k-1))]
                  \o <<B(n - Size(u.betas), u.betas)>>
    IN Array(n, LAMBDA i : LastVal(events, i, 0))

\* ----------------------------------------------------------- constructor
\* get_Ncomponents: the set of sizes must be a singleton holding a nonzero
\* size; every other path is a bare "throw;".
get_Ncomponents(rhovecs) ==
    LET sizes == {Size(rhovecs[k]) : k \in DOMAIN rhovecs}
    IN IF Cardinality(sizes) # 1 THEN [thrown |-> TRUE, value |-> 0]
       ELSE LET size == CHOOSE sz \in sizes : TRUE
            IN IF size = 0 THEN [thrown |-> TRUE, value |-> 0]
               ELSE [thrown |-> FALSE, value |-> size]

\* A bare "throw;" with no exception being handled calls std::terminate();
\* inside a handler it rethrows whatever that handler is handling.
BareThrowOutcomes == {"terminate", "rethrow"}

BetaRhovecCheck(u) == Size(u.betas) # Size(u.rhovecs)
SpecificationCheck(specs) == Len(specs) # 2

CtorOutcome(u, specs, bare) ==
    IF get_Ncomponents(u.rhovecs).thrown THEN [kind |-> bare, msg |-> "", nspecs |-> Len(specs)]
    ELSE IF BetaRhovecCheck(u)
         THEN [kind |-> "InvalidArgument", msg |-> "bad sizes for initial betas and rhovecs",
               nspecs |-> Len(specs)]
    ELSE IF SpecificationCheck(specs)
         THEN [kind |-> "InvalidArgument", msg |-> "specification vector should be of length 2",
               nspecs |-> Len(specs)]
    ELSE [kind |-> "ok", msg |-> "", nspecs |-> Len(specs)]

IndependentCount(ncomp, nph) == 1 + (ncomp+1)*nph

\* res.r.resize / res.J.resize allocate without initializing
FreshBuffer(n, g) == [r |-> Array(n, LAMBDA i : Garbage(g)),
                      J |-> Array(n, LAMBDA i : Array(n, LAMBDA j : Garbage(g)))]
NoBuffer == [r |-> <<>>, J |-> <<>>]
GarbageFills == {1, 2}

RECURSIVE SeqsUpTo(_, _)
SeqsUpTo(S, n) == IF n = 0 THEN {<<>>}
                  ELSE LET shorter == SeqsUpTo(S, n-1)
                       IN shorter \cup {Append(s, e) : s \in {t \in shorter : Len(t) = n-1}, e \in S}

\* the inputs of the constructor: per-phase array lengths, number of betas,
\* and the specification list (pairs of kinds, and lists of the other
\* lengths up to MaxSpecs); the pairs put every kind in both positions)
Shapes == SeqsUpTo(0..MaxComponents, MaxPhases)
SpecPairs == {<<"T", "P">>, <<"P", "T">>, <<"T", "V">>, <<"V", "Beta">>, <<"Beta", "P">>,
              <<"T", "Beta">>}
SpecLists == {<<MkSpec(p[1]), MkSpec(p[2])>> : p \in SpecPairs}
             \cup {[i \in 1..n |-> MkSpec("T")] : n \in (0..MaxSpecs) \ {2}}

NoNumRes == [x |-> <<>>, dx |-> <<>>, xs |-> <<>>, J |-> <<>>, J0 |-> <<>>]
NoUnpacked == [T |-> 0, rhovecs |-> <<>>, betas |-> <<>>]

Init ==
    /\ pc = "start"
    /\ ctor = [kind |-> "none", msg |-> "", nspecs |-> 0]
    /\ init = MkInit(<<>>, 0)
    /\ specifications = <<>>
    /\ Ncomponents = 0 /\ Nphases = 0 /\ Nindependent = 0
    /\ res = NoBuffer /\ res2 = NoBuffer
    /\ lastx = <<>> /\ outcome = "none" /\ errmsg = <<>> /\ rowlog = <<>>
    /\ cursor = 0 /\ unpacked = NoUnpacked
    /\ packed = <<>> /\ numres = NoNumRes
    /\ corrupted = FALSE /\ lastx2 = <<>> /\ outcome2 = "none"
    /\ speccalls = <<>> /\ modelcalls = <<>>

\* GeneralizedPhaseEquilibrium(residmodel, zbulk, init, specifications)
Construct(u, specs, bare, g) ==
    /\ pc = "start"
    /\ LET o == CtorOutcome(u, specs, bare)
           ncomp == get_Ncomponents(u.rhovecs).value
           nph == Size(u.betas)
       IN /\ ctor' = o
          /\ init' = u
          /\ IF o.kind = "ok"
             THEN /\ pc' = "ready"
                  /\ specifications' = specs
                  /\ Ncomponents' = ncomp
                  /\ Nphases' = nph
                  /\ Nindependent' = IndependentCount(ncomp, nph)
                  /\ res' = FreshBuffer(IndependentCount(ncomp, nph), g)
             ELSE /\ pc' = IF o.kind = "terminate" THEN "dead" ELSE "noobject"
                  /\ UNCHANGED <<specifications, Ncomponents, Nphases, Nindependent, res>>
    /\ UNCHANGED <<lastx, outcome, errmsg, rowlog, cursor, unpacked, packed,
                   numres, corrupted, speccalls, modelcalls, res2, lastx2, outcome2>>

DoConstruct ==
    /\ pc = "start"
    /\ \E lens \in Shapes, nb \in 0..MaxPhases, specs \in SpecLists :
         LET u == MkInit(lens, nb)
         IN IF get_Ncomponents(u.rhovecs).thrown
            THEN \E bare \in BareThrowOutcomes : Construct(u, specs, bare, 1)
            ELSE \E g \in GarbageFills : Construct(u, specs, "terminate", g)

\* ------------------------------------------------------------------ call
SizeCheck_less(x) == Size(x) < Nindependent
SizeCheck(x) == Size(x) # Nindependent

SizeMessage(x) == <<"Wrong size; should be of size">> \o to_string(Nindependent)
                  \o <<"; is of size ">> \o to_string(Size(x))

\* T = x[0]; rhovecs[iphase_] maps Ncomponents entries at 1 + iphase_*Ncomp;
\* betas maps Nphases entries at x.size() - Nphases
Unpack(x) ==
    [T |-> At(x, 0),
     rhovecs |-> Array(Nphases, LAMBDA k :
                    Array(Ncomponents, LAMBDA j : At(x, 1 + k*Ncomponents + j))),
     betas |-> Array(Nphases, LAMBDA k : At(x, Size(x) - Nphases + k))]

\* what the cached derivatives of one phase were evaluated at
PhaseArgs(u, k) == <<u.T>> \o At(u.rhovecs, k)
AllArgs(u) == u.betas \o Flatten(u.rhovecs)

Row(irow, kind, ph, comp) == [row |-> irow, kind |-> kind, ph |-> ph, comp |-> comp]

\* for (iphasei = 1; iphasei < Nphases; ++iphasei){ r.segment(irow, Ncomp) = ...; irow += Ncomp; }
RECURSIVE FugacityLoop(_, _)
FugacityLoop(iphasei, irow) ==
    IF iphasei < Nphases
    THEN LET rest == FugacityLoop(iphasei + 1, irow + Ncomponents)
         IN [rows |-> [a \in 1..Ncomponents |-> Row(irow + a - 1, "fugacity", iphasei, a - 1)]
                      \o rest.rows,
             irow |-> rest.irow]
    ELSE [rows |-> <<>>, irow |-> irow]

\* for (iphasei = 1; iphasei < Nphases; ++iphasei){ r[irow] = ...; irow += 1; }
RECURSIVE PressureLoop(_, _)
PressureLoop(iphasei, irow) ==
    IF iphasei < Nphases
    THEN LET rest == PressureLoop(iphasei + 1, irow + 1)
         IN [rows |-> <<Row(irow, "pressure", iphasei, 0)>> \o rest.rows, irow |-> rest.irow]
    ELSE [rows |-> <<>>, irow |-> irow]

RECURSIVE MaterialLoop_first(_, _)
MaterialLoop_first(icomp, irow) ==
    IF icomp < Ncomponents - 1
    THEN LET rest == MaterialLoop_first(icomp + 1, irow + 1)
         IN [rows |-> <<Row(irow, "material", 0, icomp + 1)>> \o rest.rows, irow |-> rest.irow]
    ELSE [rows |-> <<>>, irow |-> irow]
\* for (icomp = 0; icomp < Ncomp-1; ++icomp){ ...; r[irow] = ...; irow++; }
RECURSIVE MaterialLoop(_, _)
MaterialLoop(icomp, irow) ==
    IF icomp < Ncomponents - 1
    THEN LET rest == MaterialLoop(icomp + 1, irow + 1)
         IN [rows |-> <<Row(irow, "material", 0, icomp)>> \o rest.rows, irow |-> rest.irow]
    ELSE [rows |-> <<>>, irow |-> irow]

SumRow_noadvance(irow) == [rows |-> <<Row(irow, "betasum", 0, 0)>>, irow |-> irow]
\* r[irow] = betas.sum()-1; ...; irow += 1;
SumRow(irow) == [rows |-> <<Row(irow, "betasum", 0, 0)>>, irow |-> irow + 1]

\* for (auto& spec: specifications){ ...; r[irow] = r_; J.row(irow) = J_; irow += 1; }
RECURSIVE SpecLoop(_, _)
SpecLoop(n, irow) ==
    IF n <= Len(specifications)
    THEN LET rest == SpecLoop(n + 1, irow + 1)
         IN [rows |-> <<Row(irow, "spec", n, 0)>> \o rest.rows, irow |-> rest.irow]
    ELSE [rows |-> <<>>, irow |-> irow]

\* the rows of one call in the order they are assigned, and the final irow
AssemblyPlan ==
    LET f == FugacityLoop(1, 0)
        p == PressureLoop(1, f.irow)
        m == MaterialLoop(0, p.irow)
        s == SumRow(m.irow)
        sp == SpecLoop(1, s.irow)
    IN [rows |-> f.rows \o p.rows \o m.rows \o s.rows \o sp.rows, irow |-> sp.irow]

Sidecar_stale(u) ==
    LET v == IF unpacked = NoUnpacked THEN u ELSE unpacked
    IN [Nphases |-> Nphases, Ncomponents |-> Ncomponents, Nindependent |-> Nindependent,
        p_phase0 |-> Tm("p", 1, 0, 0, 0, PhaseArgs(v, 0)),
        dpdT_phase0 |-> Tm("dpdT", 1, 0, 0, 0, PhaseArgs(v, 0)),
        dpdrho_phase0 |-> Array(Ncomponents, LAMBDA b : Tm("dpdrho", 1, 0, 0, b, PhaseArgs(v, 0)))]
\* p_phase0, dpdT_phase0, dpdrho_phase0 of this call, and the counts
Sidecar(u) ==
    [Nphases |-> Nphases, Ncomponents |-> Ncomponents, Nindependent |-> Nindependent,
     p_phase0 |-> Tm("p", 1, 0, 0, 0, PhaseArgs(u, 0)),
     dpdT_phase0 |-> Tm("dpdT", 1, 0, 0, 0, PhaseArgs(u, 0)),
     dpdrho_phase0 |-> Array(Ncomponents, LAMBDA b : Tm("dpdrho", 1, 0, 0, b, PhaseArgs(u, 0)))]

\* TSpecification::r_Jacobian
TSpec_r_Jacobian(x, sidecar) ==
    [r |-> Tm("x0_minus_Tspec", 1, 0, 0, 0, <<At(x, 0)>>),
     J |-> Array(Size(x), LAMBDA i : LastVal(<<W(0, One)>>, i, Zero))]

\* BetaSpecification::r_Jacobian
BetaSpec_r_Jacobian(spec, x, sidecar) ==
    LET idx == Size(x) - sidecar.Nphases + spec.iphase
    IN [r |-> Tm("beta_minus_betaspec", 1, spec.iphase, 0, 0, <<At(x, idx)>>),
        J |-> Array(Size(x), LAMBDA i : LastVal(<<W(idx, One)>>, i, Zero))]

PSpec_r_Jacobian_shifted(x, sidecar) ==
    LET events == <<W(0, sidecar.dpdT_phase0),
                    B(2, SubSeq(sidecar.dpdrho_phase0, 1, sidecar.Ncomponents))>>
    IN [r |-> [sidecar.p_phase0 EXCEPT !.k = "p_minus_pspec"],
        J |-> Array(Size(x), LAMBDA i : LastVal(events, i, Zero))]
\* PSpecification::r_Jacobian
PSpec_r_Jacobian(x, sidecar) ==
    LET events == <<W(0, sidecar.dpdT_phase0),
                    B(1, SubSeq(sidecar.dpdrho_phase0, 1, sidecar.Ncomponents))>>
    IN [r |-> [sidecar.p_phase0 EXCEPT !.k = "p_minus_pspec"],
        J |-> Array(Size(x), LAMBDA i : LastVal(events, i, Zero))]

\* MolarVolumeSpecification::r_Jacobian
MolarVolumeSpec_r_Jacobian(x, sidecar) ==
    LET nph == sidecar.Nphases
        ncomp == sidecar.Ncomponents
        rho(k) == Array(ncomp, LAMBDA j : At(x, 1 + k*ncomp + j))
        beta(k) == At(x, Size(x) - nph + k)
        phaseEvents(k) ==
            <<W(Size(x) - nph + k, Tm("inv_rho", 1, k, 0, 0, rho(k))),
              B(1 + k*ncomp, Array(ncomp, LAMBDA b :
                                 Tm("dv_drho", -1, k, 0, 0, <<beta(k)>> \o rho(k))))>>
        events == Flatten([k \in 1..nph |-> phaseEvents(k-1)])
    IN [r |-> Tm("v_minus_vspec", 1, 0, 0, 0,
                 Flatten([k \in 1..nph |-> <<beta(k-1)>> \o rho(k-1)])),
        J |-> Array(Size(x), LAMBDA i : LastVal(events, i, Zero))]

r_Jacobian(spec, x, sidecar) ==
    CASE spec.kind = "T" -> TSpec_r_Jacobian(x, sidecar)
      [] spec.kind = "Beta" -> BetaSpec_r_Jacobian(spec, x, sidecar)
      [] spec.kind = "P" -> PSpec_r_Jacobian(x, sidecar)
      [] spec.kind = "V" -> MolarVolumeSpec_r_Jacobian(x, sidecar)

\* J.block(irow, 0, Ncomp, 1) = dlnfdT_phase0 - dlnfdT_phasei;
\* for (iphasej = 0; iphasej < Ncomp; ++iphasej)
\*     J.block(irow, 1+iphasej*Ncomp, Ncomp, Ncomp) = (iphasej == 0) ? dlnfdrho_phase0 : -dlnfdrho_phasei
FugacityWrites(u, rec) ==
    <<W(0, Tm("dlnfdT0_minus_dlnfdTi", 1, rec.ph, rec.comp, 0,
              PhaseArgs(u, 0) \o PhaseArgs(u, rec.ph)))>>
    \o [n \in 1..Ncomponents |->
          LET iphasej == n - 1
          IN B(1 + iphasej*Ncomponents,
               IF iphasej = 0
               THEN Array(Ncomponents, LAMBDA b :
                        Tm("dlnfdrho", 1, 0, rec.comp, b, PhaseArgs(u, 0)))
               ELSE Array(Ncomponents, LAMBDA b :
                        Tm("dlnfdrho", -1, rec.ph, rec.comp, b, PhaseArgs(u, rec.ph))))]

\* J(irow, 0) = dpdT_phase0 - dpdT_phasei;
\* for (iphasej = 0; iphasej < Nphases; ++iphasej)
\*     J.block(irow, 1+iphasej*Ncomp, 1, Ncomp) = (iphasej == 0) ? dpdrho_phase0 : -dpdrho_phasei
PressureWrites(u, rec) ==
    <<W(0, Tm("dpdT0_minus_dpdTi", 1, rec.ph, 0, 0, PhaseArgs(u, 0) \o PhaseArgs(u, rec.ph)))>>
    \o [n \in 1..Nphases |->
          LET iphasej == n - 1
          IN B(1 + iphasej*Ncomponents,
               IF iphasej = 0
               THEN Array(Ncomponents, LAMBDA b : Tm("dpdrho", 1, 0, 0, b, PhaseArgs(u, 0)))
               ELSE Array(Ncomponents, LAMBDA b :
                        Tm("dpdrho", -1, rec.ph, 0, b, PhaseArgs(u, rec.ph))))]

\* for (iphase ...){ J(irow, J.cols()-Nphases+iphase) = xj_phk;
\*     for (icompj ...) J(irow, 1+iphase*Ncomp + icompj) = betas[iphase]*(Kronecker - ...)/rho_phase; }
MaterialWrites(u, rec) ==
    Flatten([k \in 1..Nphases |->
        LET iphase == k - 1
        IN <<W(Nindependent - Nphases + iphase,
               Tm("xj_phk", 1, iphase, rec.comp, 0, At(u.rhovecs, iphase)))>>
           \o [c \in 1..Ncomponents |->
                 W(1 + iphase*Ncomponents + c - 1,
                   Tm("dxj_drho", 1, iphase, rec.comp, c - 1,
                      <<At(u.betas, iphase)>> \o At(u.rhovecs, iphase)))]])

BetaSumWrites_shifted(u, rec) ==
    <<B(Nindependent - Nphases - 1, Array(Nphases, LAMBDA k : One))>>
\* J.block(irow, Nindependent-Nphases, 1, Nphases).fill(1.0)
BetaSumWrites(u, rec) == <<B(Nindependent - Nphases, Array(Nphases, LAMBDA k : One))>>

\* auto [r_, J_] = spec->r_Jacobian(x, sidecar); r[irow] = r_; J.row(irow) = J_
SpecCall(spec, x, sidecar) ==
    [spec |-> spec, x |-> x, sidecar |-> sidecar, out |-> r_Jacobian(spec, x, sidecar)]
SpecResult(u, x, rec) == SpecCall(specifications[rec.ph], x, Sidecar(u)).out
SpecWrites(J_) == <<B(0, J_)>>

\* the value assigned to r[rec.row]
RowResidual(u, x, rec) ==
    CASE rec.kind = "fugacity" ->
            Tm("lnf0_minus_lnfi", 1, rec.ph, rec.comp, 0, PhaseArgs(u, 0) \o PhaseArgs(u, rec.ph))
      [] rec.kind = "pressure" ->
            Tm("p0_minus_pi", 1, rec.ph, 0, 0, PhaseArgs(u, 0) \o PhaseArgs(u, rec.ph))
      [] rec.kind = "material" ->
            Tm("summer_minus_zbulk", 1, 0, rec.comp, 0, AllArgs(u))
      [] rec.kind = "betasum" ->
            Tm("betasum_minus_1", 1, 0, 0, 0, u.betas)
      [] rec.kind = "spec" -> SpecResult(u, x, rec).r

\* the writes into row rec.row of J, in program order
ColWrites(u, x, rec) ==
    CASE rec.kind = "fugacity" -> FugacityWrites(u, rec)
      [] rec.kind = "pressure" -> PressureWrites(u, rec)
      [] rec.kind = "material" -> MaterialWrites(u, rec)
      [] rec.kind = "betasum" -> BetaSumWrites(u, rec)
      [] rec.kind = "spec" -> SpecWrites(SpecResult(u, x, rec).J)

SetZero_skipped(buf) == buf
\* J.setZero(); r.setZero();
SetZero(buf) == [r |-> Array(Size(buf.r), LAMBDA i : Zero),
                 J |-> Array(Size(buf.J), LAMBDA i : Array(Size(At(buf.J, i)), LAMBDA j : Zero))]

\* the residual assignments of one call, in program order
ResidualEvents(x) ==
    LET plan == AssemblyPlan
        u == Unpack(x)
    IN <<>> \o [n \in 1..Len(plan.rows) |-> W(plan.rows[n].row, RowResidual(u, x, plan.rows[n]))]

\* the Jacobian writes of one call: for each assigned row, in program
\* order, the row index and the writes into that row
JacobianEvents(x) ==
    LET plan == AssemblyPlan
        u == Unpack(x)
    IN <<>> \o [n \in 1..Len(plan.rows) |->
                  [row |-> plan.rows[n].row, writes |-> ColWrites(u, x, plan.rows[n])]]

\* the r_Jacobian invocations of one call, in program order
SpecCalls(x) ==
    LET plan == AssemblyPlan
        u == Unpack(x)
    IN Flatten([n \in 1..Len(plan.rows) |->
                  IF plan.rows[n].kind = "spec"
                  THEN <<SpecCall(specifications[plan.rows[n].ph], x, Sidecar(u))>>
                  ELSE <<>>])

\* one evaluation of the residual model: which function, for which phase,
\* at which temperature and concentrations
ModelCall(fn, ph, args) == [fn |-> fn, ph |-> ph, args |-> args]
\* double R = residptr.get_R(zbulk);
\* for (iphase_ ...) derivatives.emplace_back(calculate_required_derivatives(T, rhovecs[iphase_]))
DerivativeCalls(u) ==
    <<ModelCall("get_R", 0, <<>>)>>
    \o Flatten([k \in 1..Nphases |->
          <<ModelCall("build_Psir_fgradHessian_autodiff", k - 1, PhaseArgs(u, k - 1)),
            ModelCall("get_Ar10", k - 1, PhaseArgs(u, k - 1)),
            ModelCall("build_d2PsirdTdrhoi_autodiff", k - 1, PhaseArgs(u, k - 1))>>])
RowModelCalls_recompute(u, rec) ==
    IF rec.kind = "fugacity"
    THEN <<ModelCall("build_Psir_fgradHessian_autodiff", rec.ph, PhaseArgs(u, rec.ph))>>
    ELSE <<>>
\* the rows are assembled from R, T, rhovecs, betas and derivatives[] alone
RowModelCalls(u, rec) == <<>>
\* the residual-model evaluations of one call, in program order
ModelCalls(x) ==
    LET plan == AssemblyPlan
        u == Unpack(x)
    IN DerivativeCalls(u)
       \o Flatten([n \in 1..Len(plan.rows) |-> RowModelCalls(u, plan.rows[n])])

\* some write of the call addresses a row or column outside the buffers
OutOfBounds(jev) ==
    \E n \in 1..Len(jev) :
        \/ jev[n].row >= Nindependent
        \/ \E m \in 1..Len(jev[n].writes) :
              jev[n].writes[m].col + Len(jev[n].writes[m].vals) > Nindependent

\* the residual vector after the writes rev on a buffer holding buf
CallR(buf, rev) ==
    LET z == SetZero(buf)
    IN Array(Size(z.r), LAMBDA i : LastVal(rev, i, At(z.r, i)))

RowWrites(jev, i) == Flatten([n \in 1..Len(jev) |-> IF jev[n].row = i THEN jev[n].writes ELSE <<>>])
WrittenRow(ev, before) == Array(Size(before), LAMBDA j : LastVal(ev, j, At(before, j)))

\* the Jacobian after the writes jev on a buffer holding buf
CallJ(buf, jev) ==
    LET z == SetZero(buf)
    IN Array(Size(z.J), LAMBDA i : WrittenRow(RowWrites(jev, i), At(z.J, i)))

\* an Eigen block or index outside the matrix: the assertion aborts the
\* process, or (assertions compiled out) the write lands outside the buffer
OutOfBoundsOutcomes == {"abort", "ub"}

CallBuffer(buf, x) == [r |-> CallR(buf, ResidualEvents(x)), J |-> CallJ(buf, JacobianEvents(x))]

\* call(x) as a whole: the buffers and what the call did; oob tells how an
\* out-of-bounds write ends, when there is one
CallEffect(buf, x, oob) ==
    IF SizeCheck(x)
    THEN [outcome |-> "InvalidArgument", errmsg |-> SizeMessage(x), res |-> SetZero(buf),
          rowlog |-> <<>>, cursor |-> 0, unpacked |-> NoUnpacked,
          speccalls |-> <<>>, modelcalls |-> <<>>]
    ELSE IF oob = "abort"
    THEN [outcome |-> "abort", errmsg |-> <<>>, res |-> NoBuffer,
          rowlog |-> <<>>, cursor |-> 0, unpacked |-> Unpack(x),
          speccalls |-> <<>>, modelcalls |-> DerivativeCalls(Unpack(x))]
    ELSE [outcome |-> IF oob = "ub" THEN "ub" ELSE "ok", errmsg |-> <<>>,
          res |-> CallBuffer(buf, x),
          rowlog |-> AssemblyPlan.rows, cursor |-> AssemblyPlan.irow, unpacked |-> Unpack(x),
          speccalls |-> SpecCalls(x), modelcalls |-> ModelCalls(x)]

Call(x, e) ==
    /\ res' = e.res
    /\ outcome' = e.outcome
    /\ errmsg' = e.errmsg
    /\ rowlog' = e.rowlog
    /\ cursor' = e.cursor
    /\ unpacked' = e.unpacked
    /\ speccalls' = e.speccalls
    /\ modelcalls' = e.modelcalls
    /\ corrupted' = (corrupted \/ e.outcome = "ub")
    /\ pc' = IF e.outcome = "abort" THEN "dead" ELSE pc
    /\ lastx' = x
    /\ UNCHANGED <<ctor, init, specifications, Ncomponents, Nphases, Nindependent,
                   packed, numres, res2, lastx2, outcome2>>

\* the arguments handed to call: the packed initial guess, the same with
\* one entry raised (the temperature, the first concentration or the last
\* phase fraction), and vectors one entry too short and too long
Bump(x, i) == Array(Size(x), LAMBDA j : IF j = i THEN At(x, j) + 1 ELSE At(x, j))
Shorter(x) == SubSeq(x, 1, Size(x) - 1)
Longer(x) == x \o <<1>>
BumpIndices(x) == {0, 1, Size(x) - 1}
XInputs == {packed, Shorter(packed), Longer(packed)}
           \cup {Bump(packed, i) : i \in BumpIndices(packed)}

\* the ways call(x) can end
CallOutcomes(x) == IF ~SizeCheck(x) /\ OutOfBounds(JacobianEvents(x))
                   THEN OutOfBoundsOutcomes ELSE {"none"}

DoCall ==
    /\ pc = "ready"
    /\ packed # <<>>
    /\ \E x \in XInputs : \E oob \in CallOutcomes(x) : \E e \in {CallEffect(res, x, oob)} :
         Call(x, e)

\* x = init.pack()
DoPack ==
    /\ pc = "ready"
    /\ packed' = pack(init)
    /\ UNCHANGED <<pc, ctor, init, specifications, Ncomponents, Nphases, Nindependent,
                   res, lastx, outcome, errmsg, rowlog, cursor, unpacked,
                   numres, corrupted, speccalls, modelcalls, res2, lastx2, outcome2>>

\* ---------------------------------------------------------- num_Jacobian
StepOf_nofallback(dx, i) == At(dx, i)
\* double dx_ = (dx[i] != 0) ? dx[i] : 1e-6;
StepOf(dx, i) == IF At(dx, i) # 0 THEN At(dx, i) ELSE DefaultStep
\* Eigen::ArrayXd xplus = x; xplus[i] += dx_;   (and xminus)
Perturbed(x, i, d) == Array(Size(x), LAMBDA j : IF j = i THEN At(x, j) + d ELSE At(x, j))

\* the arguments of the calls num_Jacobian makes, in order
NumJacobianCalls(x, dx) ==
    <<x>> \o Flatten([k \in 1..Nindependent |->
                <<Perturbed(x, k-1, StepOf(dx, k-1)), Perturbed(x, k-1, 0 - StepOf(dx, k-1))>>])

\* J.col(i) = (rplus - rminus)/(2*dx_): entry (row, i) of the result
NumEntry(rplus, rminus, dx_, row) == [plus |-> At(rplus, row), minus |-> At(rminus, row), step |-> dx_]

\* num_Jacobian(x, dx) when no call fails: the matrix returned (by rows),
\* as xs the arguments of the calls it made, and, as J0, the Jacobian the
\* first call(x) left in res.  Every call
\* starts with setZero on buffers whose dimensions never change, so each
\* call of the sequence finds the buffers as the first one does.
NumJacobianResult(buf, x, dx) ==
    LET b0 == CallBuffer(buf, x)
        xs == NumJacobianCalls(x, dx)
        cols == Array(Nindependent, LAMBDA i :
                   [rplus |-> CallR(buf, ResidualEvents(At(xs, 1 + 2*i))),
                    rminus |-> CallR(buf, ResidualEvents(At(xs, 2 + 2*i))),
                    dx_ |-> StepOf(dx, i)])
    IN [x |-> x, dx |-> dx, xs |-> xs, J0 |-> b0.J,
        J |-> Array(Nindependent, LAMBDA row : Array(Nindependent, LAMBDA i :
                 NumEntry(At(cols, i).rplus, At(cols, i).rminus, At(cols, i).dx_, row)))]

NumJacobian(x, dx, oob) ==
    /\ pc = "ready"
    /\ IF SizeCheck(x) \/ oob = "abort"
       THEN \E e \in {CallEffect(res, x, oob)} :
              /\ Call(x, e)
       ELSE LET xs == NumJacobianCalls(x, dx)
                last == xs[Len(xs)]
            IN \E e \in {CallEffect(res, last, oob)} :
                 /\ res' = e.res
                 /\ outcome' = e.outcome
                 /\ errmsg' = e.errmsg
                 /\ rowlog' = e.rowlog
                 /\ cursor' = e.cursor
                 /\ unpacked' = e.unpacked
                 /\ speccalls' = e.speccalls
                 /\ modelcalls' = e.modelcalls
                 /\ corrupted' = (corrupted \/ e.outcome = "ub")
                 /\ lastx' = last
                 /\ numres' = NumJacobianResult(res, x, dx)
                 /\ UNCHANGED <<pc, ctor, init, specifications, Ncomponents, Nphases,
                                Nindependent, packed, res2, lastx2, outcome2>>

\* the step arrays handed to num_Jacobian: all zero (the fallback step) and
\* all two units
DxInputs == {Array(Nindependent, LAMBDA i : 0), Array(Nindependent, LAMBDA i : 2)}

DoNumJacobian ==
    /\ pc = "ready"
    /\ packed # <<>>
    /\ \E x \in {packed, Shorter(packed)} : \E dx \in DxInputs : \E oob \in CallOutcomes(x) :
         NumJacobian(x, dx, oob)

\* ------------------------------- a specification object invoked directly
\* spec.r_Jacobian(x, sidecar) on a sidecar a caller filled in: the counts, a
\* pressure, dP/dT and a dP/drho of Ncomponents entries; x has the size
\* Nindependent of the sidecar, one less or one more
DirectSidecar(ncomp, nph) ==
    [Nphases |-> nph, Ncomponents |-> ncomp, Nindependent |-> IndependentCount(ncomp, nph),
     p_phase0 |-> Tm("p", 1, 0, 0, 0, <<7>>),
     dpdT_phase0 |-> Tm("dpdT", 1, 0, 0, 0, <<7>>),
     dpdrho_phase0 |-> Array(ncomp, LAMBDA b : Tm("dpdrho", 1, 0, 0, b, <<7>>))]
DirectX(n) == Array(n, LAMBDA i : 100 + i)
DoSpecification ==
    /\ pc = "start"
    /\ \E kind \in SpecKinds, ncomp \in 1..MaxComponents, nph \in 1..MaxPhases, d \in {-1, 0, 1} :
         speccalls' = <<SpecCall(MkSpec(kind), DirectX(IndependentCount(ncomp, nph) + d),
                                 DirectSidecar(ncomp, nph))>>
    /\ pc' = "noobject"
    /\ UNCHANGED <<ctor, init, specifications, Ncomponents, Nphases, Nindependent,
                   res, lastx, outcome, errmsg, rowlog, cursor, unpacked, packed,
                   numres, corrupted, modelcalls, res2, lastx2, outcome2>>

\* ------------------------------------------- a second assembler (twin)
\* a second GeneralizedPhaseEquilibrium constructed from the same model,
\* zbulk, init and specifications
ConstructTwin ==
    /\ pc = "ready"
    /\ res2 = NoBuffer
    /\ \E g \in GarbageFills : res2' = FreshBuffer(Nindependent, g)
    /\ UNCHANGED <<pc, ctor, init, specifications, Ncomponents, Nphases, Nindependent,
                   res, lastx, outcome, errmsg, rowlog, cursor, unpacked, packed,
                   numres, corrupted, speccalls, modelcalls, lastx2, outcome2>>

\* call(x) on the second assembler
DoCall2 ==
    /\ pc = "ready"
    /\ packed # <<>>
    /\ res2 # NoBuffer
    /\ \E x \in XInputs : \E oob \in CallOutcomes(x) : \E e \in {CallEffect(res2, x, oob)} :
         /\ res2' = e.res
         /\ outcome2' = e.outcome
         /\ lastx2' = x
         /\ corrupted' = (corrupted \/ e.outcome = "ub")
         /\ pc' = IF e.outcome = "abort" THEN "dead" ELSE pc
         /\ UNCHANGED <<ctor, init, specifications, Ncomponents, Nphases, Nindependent,
                        res, lastx, outcome, errmsg, rowlog, cursor, unpacked, packed, numres,
                        speccalls, modelcalls>>

Next == DoConstruct \/ DoPack \/ DoCall \/ DoNumJacobian \/ DoSpecification
Spec == Init /\ [][Next]_vars

NextTwin == DoConstruct \/ DoPack \/ DoCall \/ ConstructTwin \/ DoCall2
SpecTwin == Init /\ [][NextTwin]_vars

\* ================================================================ claims
JAt(J, row, col) == At(At(J, row), col)
Contains(msg, sub) == \E i \in 0..(Len(msg) - Len(sub)) : SubSeq(msg, i + 1, i + Len(sub)) = sub
Called == outcome # "none"
\* the columns of phase k's concentration block, and the phase-fraction columns
BlockCols(k) == (1 + k*Ncomponents)..(k*Ncomponents + Ncomponents)
BetaCols == (Nindependent - Nphases)..(Nindependent - 1)

\* C1: a call whose argument has a size other than Nindependent ends with
\* InvalidArgument and a message holding both the expected and the actual
\* size; a call whose argument has the size Nindependent raises no size error.
C1_SizeError ==
    Called =>
        IF Size(lastx) # Nindependent
        THEN /\ outcome = "InvalidArgument"
             /\ Contains(errmsg, to_string(Nindependent))
             /\ Contains(errmsg, to_string(Size(lastx)))
        ELSE outcome # "InvalidArgument" /\ errmsg = <<>>
C1_Witness ==
    /\ outcome = "InvalidArgument"
    /\ Size(lastx) = Nindependent + 1
    /\ Contains(errmsg, to_string(Nindependent + 1))

\* C2 (as claimed): construction ends with InvalidArgument whenever the
\* numbers of betas and rhovecs differ or the specification list is not of
\* length two, and succeeds when the counts agree, the phase arrays are
\* consistent and non-empty and there are exactly two specifications.
C2_CtorRejectsMismatch ==
    ctor.kind # "none" =>
        IF Size(init.betas) # Size(init.rhovecs) \/ ctor.nspecs # 2
        THEN ctor.kind = "InvalidArgument"
        ELSE ~get_Ncomponents(init.rhovecs).thrown => ctor.kind = "ok"

\* C3 (as claimed): construction with no phases, with phase arrays of
\* different lengths or with zero-length phase arrays ends with
\* InvalidArgument, as the other size mismatches do.
C3_CtorRejectsPhaseArrays ==
    (ctor.kind # "none" /\ get_Ncomponents(init.rhovecs).thrown) => ctor.kind = "InvalidArgument"

\* C4 (as claimed): for 2..4 phases and components, an entry of the
\* Jacobian that call(x) leaves is nonzero exactly where the central
\* difference of num_Jacobian is, i.e. where the residual of that row
\* changes with that unknown.
C4_JacobianMatchesNumerical ==
    (numres # NoNumRes /\ ~corrupted /\ Ncomponents >= 2 /\ Nphases >= 2) =>
        \A row \in 0..Nindependent-1, col \in 0..Nindependent-1 :
            (JAt(numres.J0, row, col) # Zero)
              <=> (JAt(numres.J, row, col).plus # JAt(numres.J, row, col).minus)

\* C5: the five row counts add up to Nindependent = 1 + (Ncomponents+1)*Nphases,
\* and a successful call assigns the rows 0, 1, ..., Nindependent-1 once
\* each, in this order: fugacity, pressure, material balance, fraction sum,
\* the two specifications; irow ends at Nindependent.
RowKindAt(n) ==
    IF n < Ncomponents*(Nphases - 1) THEN "fugacity"
    ELSE IF n < Ncomponents*(Nphases - 1) + (Nphases - 1) THEN "pressure"
    ELSE IF n < Ncomponents*(Nphases - 1) + (Nphases - 1) + (Ncomponents - 1) THEN "material"
    ELSE IF n < Ncomponents*(Nphases - 1) + (Nphases - 1) + (Ncomponents - 1) + 1 THEN "betasum"
    ELSE "spec"
C5_RowCount ==
    /\ pc = "ready" =>
         /\ Ncomponents >= 1 /\ Nphases >= 1
         /\ Ncomponents*(Nphases - 1) + (Nphases - 1) + (Ncomponents - 1) + 1 + 2 = Nindependent
         /\ Nindependent = 1 + (Ncomponents + 1)*Nphases
    /\ outcome = "ok" =>
         /\ cursor = Nindependent
         /\ Len(rowlog) = Nindependent
         /\ \A n \in 1..Len(rowlog) : rowlog[n].row = n - 1 /\ rowlog[n].kind = RowKindAt(n - 1)
C5_Witness ==
    /\ outcome = "ok" /\ Ncomponents = 3 /\ Nphases = 3
    /\ cursor = 13 /\ rowlog[13].kind = "spec" /\ rowlog[1].kind = "fugacity"

\* C6: pack() yields 1 + (Ncomponents+1)*Nphases entries: T at 0, component j
\* of phase k at 1 + k*Ncomponents + j, beta_k at 1 + Ncomponents*Nphases + k;
\* call reads T, the concentrations and the betas back from exactly these
\* places, so unpacking the packed vector returns the packed variables.
C6_PackUnpack ==
    /\ packed # <<>> =>
         /\ Size(packed) = 1 + (Ncomponents + 1)*Nphases
         /\ At(packed, 0) = init.T
         /\ \A k \in 0..Nphases-1, j \in 0..Ncomponents-1 :
               At(packed, 1 + k*Ncomponents + j) = At(At(init.rhovecs, k), j)
         /\ \A k \in 0..Nphases-1 : At(packed, 1 + Ncomponents*Nphases + k) = At(init.betas, k)
    /\ (outcome \in {"ok", "ub", "abort"} /\ lastx = packed) => unpacked = init
C6_Witness ==
    /\ outcome = "ok" /\ lastx = packed /\ Ncomponents = 2 /\ Nphases = 3
    /\ unpacked.rhovecs = <<<<10, 11>>, <<20, 21>>, <<30, 31>>>>
    /\ unpacked.betas = <<60, 61, 62>>

\* C7: two assemblers built from the same data whose most recent calls
\* both succeeded on the same x hold the same residual vector and Jacobian,
\* whatever either of them was called with before.
C7_NoLeak ==
    (outcome = "ok" /\ outcome2 = "ok" /\ lastx = lastx2) => res = res2
C7_Witness ==
    /\ outcome = "ok" /\ outcome2 = "ok" /\ lastx = lastx2 /\ lastx # packed
    /\ res = res2 /\ res.J # <<>>

\* C8 (as claimed): the fugacity rows of phase i are the rows
\* (i-1)*Ncomponents .. i*Ncomponents-1; in them the concentration block of
\* phase 0 holds the phase-0 expression, the block of phase i the negative
\* of the phase-i expression, and every other concentration block and every
\* phase-fraction column is zero.
C8_FugacityBlocks ==
    outcome = "ok" =>
        \A i \in 1..Nphases-1, a \in 0..Ncomponents-1 :
            LET row == (i - 1)*Ncomponents + a
            IN /\ rowlog[row + 1] = Row(row, "fugacity", i, a)
               /\ \A col \in 1..Nindependent-1 :
                     JAt(res.J, row, col) =
                        IF col \in BlockCols(0)
                        THEN Tm("dlnfdrho", 1, 0, a, col - 1, PhaseArgs(unpacked, 0))
                        ELSE IF col \in BlockCols(i)
                        THEN Tm("dlnfdrho", -1, i, a, col - 1 - i*Ncomponents,
                                PhaseArgs(unpacked, i))
                        ELSE Zero

\* C9 (as claimed): the pressure rows follow the fugacity rows, one per
\* phase i in increasing order; the row of phase i holds +dP/drho of phase 0
\* in block 0, -dP/drho of phase i in block i, and zero in every other
\* concentration block and in every phase-fraction column.
C9_PressureBlocks ==
    outcome = "ok" =>
        \A i \in 1..Nphases-1 :
            LET row == Ncomponents*(Nphases - 1) + (i - 1)
            IN /\ rowlog[row + 1] = Row(row, "pressure", i, 0)
               /\ \A col \in 1..Nindependent-1 :
                     JAt(res.J, row, col) =
                        IF col \in BlockCols(0)
                        THEN Tm("dpdrho", 1, 0, 0, col - 1, PhaseArgs(unpacked, 0))
                        ELSE IF col \in BlockCols(i)
                        THEN Tm("dpdrho", -1, i, 0, col - 1 - i*Ncomponents,
                                PhaseArgs(unpacked, i))
                        ELSE Zero

\* C10: a successful call assigns exactly Ncomponents-1 material-balance
\* rows, for the components 0 .. Ncomponents-2 in increasing order (none
\* when Ncomponents = 1); such a row is zero in the temperature column and
\* holds, for every phase, the mole fraction of its component in the
\* phase-fraction column and the concentration derivatives in the
\* concentration block.
MaterialRows == {n \in 1..Len(rowlog) : rowlog[n].kind = "material"}
C10_MaterialRows ==
    outcome = "ok" =>
        /\ Cardinality(MaterialRows) = Ncomponents - 1
        /\ \A icomp \in 0..Ncomponents-2 :
              LET row == Ncomponents*(Nphases - 1) + (Nphases - 1) + icomp
              IN /\ rowlog[row + 1] = Row(row, "material", 0, icomp)
                 /\ JAt(res.J, row, 0) = Zero
                 /\ \A k \in 0..Nphases-1 :
                       /\ JAt(res.J, row, Nindependent - Nphases + k)
                            = Tm("xj_phk", 1, k, icomp, 0, At(unpacked.rhovecs, k))
                       /\ \A j \in 0..Ncomponents-1 :
                             LET e == JAt(res.J, row, 1 + k*Ncomponents + j)
                             IN e.k = "dxj_drho" /\ e.ph = k /\ e.a = icomp /\ e.b = j
C10_Witness ==
    /\ outcome = "ok" /\ Ncomponents = 3 /\ Nphases = 3
    /\ Cardinality(MaterialRows) = 2
    /\ rowlog[9].kind = "material" /\ rowlog[9].comp = 0 /\ rowlog[10].comp = 1
    /\ JAt(res.J, 8, 0) = Zero /\ JAt(res.J, 8, 10).k = "xj_phk"

\* C11: a call that completes assigns exactly one phase-fraction-sum row, the
\* row Nindependent-3 right before the two specification rows; its residual
\* is the sum of the last Nphases entries of x minus 1, and its Jacobian row
\* is 1 in each of the last Nphases columns and 0 in the temperature column
\* and in every concentration column.
BetaSumRows == {n \in 1..Len(rowlog) : rowlog[n].kind = "betasum"}
C11_BetaSumRow ==
    outcome = "ok" =>
        LET row == Nindependent - 3
        IN /\ BetaSumRows = {row + 1}
           /\ rowlog[row + 1].row = row
           /\ \A n \in 1..Len(rowlog) : n > row + 1 => rowlog[n].kind = "spec"
           /\ At(res.r, row) = Tm("betasum_minus_1", 1, 0, 0, 0,
                                  SubSeq(lastx, Nindependent - Nphases + 1, Nindependent))
           /\ \A col \in 0..Nindependent-1 :
                 JAt(res.J, row, col) = IF col >= Nindependent - Nphases THEN One ELSE Zero
C11_Witness ==
    /\ outcome = "ok" /\ Ncomponents = 2 /\ Nphases = 3 /\ lastx # packed
    /\ At(res.r, 7) = Tm("betasum_minus_1", 1, 0, 0, 0, <<60, 61, 63>>)
    /\ JAt(res.J, 7, 6) = Zero /\ JAt(res.J, 7, 7) = One /\ JAt(res.J, 7, 9) = One

\* C12: in a successful call the rows Nindependent-2 and Nindependent-1 of
\* the residual and of the Jacobian are the pairs the two specification
\* objects returned, in the order of construction; each object is invoked
\* exactly once, with the x of this call and a sidecar filled in during this
\* call: the counts of the assembler, and the phase-0 pressure, dP/dT and
\* dP/drho evaluated at the T and phase-0 concentrations of this x (the
\* values the pressure rows use), never those of an earlier call.
Phase0Args(x) == SubSeq(x, 1, 1 + Ncomponents)
C12_SpecRows ==
    outcome = "ok" =>
        /\ Len(speccalls) = 2
        /\ \A n \in 1..2 :
              LET c == speccalls[n]
                  row == Nindependent - 3 + n
              IN /\ c.spec = specifications[n]
                 /\ c.x = lastx
                 /\ c.sidecar.Nphases = Nphases
                 /\ c.sidecar.Ncomponents = Ncomponents
                 /\ c.sidecar.Nindependent = Nindependent
                 /\ c.sidecar.p_phase0 = Tm("p", 1, 0, 0, 0, Phase0Args(lastx))
                 /\ c.sidecar.dpdT_phase0 = Tm("dpdT", 1, 0, 0, 0, Phase0Args(lastx))
                 /\ Size(c.sidecar.dpdrho_phase0) = Ncomponents
                 /\ \A b \in 0..Ncomponents-1 :
                       /\ At(c.sidecar.dpdrho_phase0, b) = Tm("dpdrho", 1, 0, 0, b, Phase0Args(lastx))
                       /\ Nphases >= 2 =>
                            JAt(res.J, Ncomponents*(Nphases - 1), 1 + b)
                               = At(c.sidecar.dpdrho_phase0, b)
                 /\ c.out = r_Jacobian(c.spec, c.x, c.sidecar)
                 /\ rowlog[row + 1] = Row(row, "spec", n, 0)
                 /\ At(res.r, row) = c.out.r
                 /\ At(res.J, row) = c.out.J
C12_Witness ==
    /\ outcome = "ok" /\ Ncomponents = 2 /\ Nphases = 2
    /\ At(lastx, 0) = 6 /\ lastx # packed
    /\ Len(speccalls) = 2 /\ speccalls[1].spec.kind = "P" /\ speccalls[2].spec.kind = "T"
    /\ speccalls[1].sidecar.p_phase0.args = <<6, 10, 11>>
    /\ At(res.r, 5).k = "p_minus_pspec" /\ At(res.r, 5).args = <<6, 10, 11>>
    /\ At(res.r, 6).k = "x0_minus_Tspec"

\* C13: PSpecification::r_Jacobian(x, sidecar) returns the residual
\* "sidecar's phase-0 pressure minus P*" and a row of x.size() entries that
\* holds the sidecar's dP/dT at index 0, the sidecar's dP/drho at the indices
\* 1..Ncomponents and zero everywhere else (the other concentration blocks
\* and the phase-fraction columns); x and the sidecar are as before for
\* whoever is invoked next.
PSpecCalls == {n \in 1..Len(speccalls) : speccalls[n].spec.kind = "P"}
C13_PSpecification ==
    \A n \in PSpecCalls :
        LET c == speccalls[n]
        IN /\ c.out.r.k = "p_minus_pspec"
           /\ c.out.r.args = c.sidecar.p_phase0.args
           /\ Size(c.out.J) = Size(c.x)
           /\ \A i \in 0..Size(c.x)-1 :
                 At(c.out.J, i) =
                    IF i = 0 THEN c.sidecar.dpdT_phase0
                    ELSE IF i <= c.sidecar.Ncomponents THEN At(c.sidecar.dpdrho_phase0, i - 1)
                    ELSE Zero
           /\ \A m \in 1..Len(speccalls) : speccalls[m].x = c.x /\ speccalls[m].sidecar = c.sidecar
C13_Witness ==
    \E n \in PSpecCalls :
        LET c == speccalls[n]
        IN /\ pc = "noobject" /\ c.sidecar.Ncomponents = 2 /\ c.sidecar.Nphases = 3
           /\ Size(c.x) = 11 /\ Size(c.out.J) = 11
           /\ At(c.out.J, 2) = Tm("dpdrho", 1, 0, 0, 1, <<7>>)
           /\ At(c.out.J, 3) = Zero /\ At(c.out.J, 10) = Zero

\* C14: a successful call evaluates get_R once and then, for each phase in
\* increasing order, build_Psir_fgradHessian_autodiff, get_Ar10 and
\* build_d2PsirdTdrhoi_autodiff once each at the T and concentrations of
\* that phase; nothing else is evaluated while the rows are assembled.
ModelCallsOf(fn) == {n \in 1..Len(modelcalls) : modelcalls[n].fn = fn}
PerPhaseFunctions == <<"build_Psir_fgradHessian_autodiff", "get_Ar10", "build_d2PsirdTdrhoi_autodiff">>
C14_ModelEvaluations ==
    outcome = "ok" =>
        /\ Len(modelcalls) = 1 + 3*Nphases
        /\ ModelCallsOf("get_R") = {1}
        /\ \A f \in 1..3 :
              /\ Cardinality(ModelCallsOf(PerPhaseFunctions[f])) = Nphases
              /\ \A k \in 0..Nphases-1 :
                    LET c == modelcalls[1 + 3*k + f]
                    IN /\ c.fn = PerPhaseFunctions[f]
                       /\ c.ph = k
                       /\ c.args = <<At(lastx, 0)>>
                                   \o SubSeq(lastx, 2 + k*Ncomponents, 1 + (k + 1)*Ncomponents)
C14_Witness ==
    /\ outcome = "ok" /\ Ncomponents = 2 /\ Nphases = 3 /\ lastx # packed
    /\ Len(modelcalls) = 10 /\ modelcalls[1].fn = "get_R"
    /\ modelcalls[8] = ModelCall("build_Psir_fgradHessian_autodiff", 2, <<5, 30, 31>>)
    /\ modelcalls[10] = ModelCall("build_d2PsirdTdrhoi_autodiff", 2, <<5, 30, 31>>)

\* C15: num_Jacobian(x, dx) makes, after call(x), two calls per unknown i:
\* at x with entry i alone raised by the step and at x with entry i alone
\* lowered by it, the step being dx[i], or 1e-6 where dx[i] is zero; entry
\* (row, i) of the Nindependent x Nindependent matrix it returns is
\* (r_plus[row] - r_minus[row])/(2*step) of these two calls, for every
\* column i; x itself is as the caller passed it.
ExpectedStep(dx, i) == IF At(dx, i) = 0 THEN 1 ELSE At(dx, i)
OnlyEntryMoved(y, x, i, d) ==
    /\ Size(y) = Size(x)
    /\ \A j \in 0..Size(x)-1 : At(y, j) = At(x, j) + (IF j = i THEN d ELSE 0)
C15_NumJacobian ==
    (numres # NoNumRes /\ ~corrupted) =>
        /\ numres.x = packed
        /\ Size(numres.x) = Nindependent
        /\ Size(numres.xs) = 1 + 2*Nindependent
        /\ At(numres.xs, 0) = numres.x
        /\ Size(numres.J) = Nindependent
        /\ \A i \in 0..Nindependent-1 :
              LET step == ExpectedStep(numres.dx, i)
                  xplus == At(numres.xs, 1 + 2*i)
                  xminus == At(numres.xs, 2 + 2*i)
              IN /\ OnlyEntryMoved(xplus, numres.x, i, step)
                 /\ OnlyEntryMoved(xminus, numres.x, i, 0 - step)
                 /\ \E rplus \in {CallR(res, ResidualEvents(xplus))} :
                    \E rminus \in {CallR(res, ResidualEvents(xminus))} :
                      \A row \in 0..Nindependent-1 :
                         /\ Size(At(numres.J, row)) = Nindependent
                         /\ JAt(numres.J, row, i)
                              = [plus |-> At(rplus, row), minus |-> At(rminus, row), step |-> step]
C15_Witness ==
    /\ numres # NoNumRes /\ ~corrupted /\ Ncomponents = 2 /\ Nphases = 2
    /\ At(numres.dx, 0) = 0 /\ At(numres.xs, 1) = <<6, 10, 11, 20, 21, 60, 61>>
    /\ At(numres.xs, 14) = <<5, 10, 11, 20, 21, 60, 60>>
    /\ JAt(numres.J, 4, 6).step = 1
    /\ JAt(numres.J, 4, 6).plus.args = <<60, 62>> /\ JAt(numres.J, 4, 6).minus.args = <<60, 60>>

\* C16 (as claimed): for every Ncomponents >= 1 and Nphases >= 1, a call
\* whose argument has Nindependent entries completes, and every block, row
\* and element it writes lies inside the Nindependent x Nindependent
\* Jacobian: no write starts at or runs past row or column Nindependent.
C16_WritesInBounds ==
    (Called /\ Size(lastx) = Nindependent) =>
        /\ outcome = "ok"
        /\ ~corrupted
        /\ \E jev \in {JacobianEvents(lastx)} :
              \A n \in 1..Len(jev) :
                 /\ jev[n].row < Nindependent
                 /\ \A m \in 1..Len(jev[n].writes) :
                       jev[n].writes[m].col + Len(jev[n].writes[m].vals) <= Nindependent

\* C17 (as claimed): a call rejected for the size of its argument leaves
\* the residual vector and the Jacobian of the previous successful call in
\* the buffers, unchanged.
C17_RejectedCallKeepsBuffers ==
    [][(outcome = "ok" /\ outcome' = "InvalidArgument") => res' = res]_vars
====
